---- MODULE Spec2Model ----
(***************************************************************************)
(* Model of the cortex.cpp model client (CortexAPI): a single-concurrency  *)
(* request queue in front of the HTTP transport, the websocket event       *)
(* bridge and the model normalizer.                                        *)
(***************************************************************************)
EXTENDS Integers, Sequences, FiniteSets, TLC

\* ------------------------------------------------------------------ bounds
\* Number of client calls issued after construction.
MaxCalls == 2
\* Number of push frames delivered to message listeners.
MaxFrames == 2
\* Number of items in the task of a frame whose payload is computed on its own.
MaxItems == 2
\* Number of successive normalizations of one model record.
MaxPasses == 2

\* ------------------------------------------------------- program constants
\* A queue that admits two operations at a time.
ConcurrencyTwo == 1 + 1

\* new PQueue({ concurrency: 1 })
Concurrency == 1
\* A health probe allowed one retry more.
RetryLimitMore == 10 + 1
\* retry: { limit: 10, methods: ['get'] }
RetryLimit == 10
\* setTimeout(..., 500)
ModelsUpdateDelay == 500
\* Granularity of the modelled clock, in milliseconds.
TickMs == ModelsUpdateDelay \div 2

\* ------------------------------------------------------------- JSON values
JsonNull == [t |-> "null"]
JsonString == [t |-> "string"]
JsonArray == [t |-> "array"]
JsonObject == [t |-> "object"]
NoBody == [t |-> "none"]

\* JavaScript's typeof: null and arrays are objects too.
TypeOf(v) ==
    IF v.t \in {"null", "array", "object", "model", "modelList"} THEN "object" ELSE v.t

\* {...a, ...b}: the keys of both, b's value where both have the key.
Spread(a, b) ==
    [k \in (DOMAIN a) \cup (DOMAIN b) |-> IF k \in DOMAIN b THEN b[k] ELSE a[k]]

\* The record m restricted to the keys in ks.
Pick(m, ks) == [k \in (DOMAIN m) \cap ks |-> m[k]]

Empty == [k \in {} |-> 0]

\* ------------------------------------------------------- model normalizer
InferenceKeys == {"temperature", "top_p"}
LoadKeys == {"ctx_len", "ngl"}

\* extractInferenceParams: the inference-time keys found on the record.
extractInferenceParams(model) == Pick(model, InferenceKeys)

\* extractModelLoadParams: the load-time keys found on the record.
extractModelLoadParams(model) == Pick(model, LoadKeys)

Field(model, k) == IF k \in DOMAIN model THEN model[k] ELSE Empty

\* A normalizer whose derived defaults override the explicit values.
transformModelDefaultsWin(model) ==
    LET params == Spread(Field(model, "parameters"), extractInferenceParams(model))
        m1 == Spread(model, [parameters |-> params])
        sets == Spread(Field(m1, "settings"), extractModelLoadParams(m1))
        m2 == Spread(m1, [settings |-> sets])
        meta == IF "metadata" \in DOMAIN m2
                THEN m2.metadata
                ELSE [tags |-> <<>>,
                      size |-> IF "size" \in DOMAIN m2 THEN m2.size ELSE 0]
    IN  Spread(m2, [metadata |-> meta])

\* A normalizer that nests the explicit parameters instead of spreading them.
transformModelNested(model) ==
    LET params ==
            IF "parameters" \in DOMAIN model
            THEN Spread(extractInferenceParams(model), [parameters |-> model.parameters])
            ELSE extractInferenceParams(model)
        m1 == Spread(model, [parameters |-> params])
        sets == Spread(extractModelLoadParams(m1), Field(m1, "settings"))
        m2 == Spread(m1, [settings |-> sets])
        meta == IF "metadata" \in DOMAIN m2
                THEN m2.metadata
                ELSE [tags |-> <<>>,
                      size |-> IF "size" \in DOMAIN m2 THEN m2.size ELSE 0]
    IN  Spread(m2, [metadata |-> meta])

transformModel(model) ==
    LET params == Spread(extractInferenceParams(model), Field(model, "parameters"))
        m1 == Spread(model, [parameters |-> params])
        sets == Spread(extractModelLoadParams(m1), Field(m1, "settings"))
        m2 == Spread(m1, [settings |-> sets])
        meta == IF "metadata" \in DOMAIN m2
                THEN m2.metadata
                ELSE [tags |-> <<>>,
                      size |-> IF "size" \in DOMAIN m2 THEN m2.size ELSE 0]
    IN  Spread(m2, [metadata |-> meta])

\* Raw model records the backend may return.
ModelA == [id |-> "a", temperature |-> 7, ctx_len |-> 2048]
ModelB ==
    [id |-> "b", size |-> 3, temperature |-> 7,
     parameters |-> [temperature |-> 5], metadata |-> [tags |-> <<"x">>]]
Models == {ModelA, ModelB}
ModelLists == {<<>>, <<ModelA>>, <<ModelA, ModelB>>, <<ModelB, ModelA>>}

\* ------------------------------------------------------ transport outcomes
Ok(body) == [ok |-> TRUE, response |-> "json", body |-> body]
NetworkFailure == [ok |-> FALSE, response |-> "none", body |-> NoBody]
HttpFailure(body) == [ok |-> FALSE, response |-> "json", body |-> body]
HttpFailureUnparseable == [ok |-> FALSE, response |-> "unparseable", body |-> NoBody]
ErrorBody == [t |-> "object", message |-> "backend error"]

Failures ==
    {NetworkFailure, HttpFailure(ErrorBody), HttpFailure(JsonNull), HttpFailureUnparseable}

\* Bodies a successful GET /models may carry.
ListBodies ==
    {JsonNull, JsonString, JsonArray, JsonObject}
        \cup {[t |-> "modelList", data |-> l] : l \in ModelLists}

ClientKinds ==
    {"getModel", "getModels", "pullModel", "importModel", "deleteModel",
     "updateModel", "cancelModelPull", "getModelStatus"}

ResponsesOf(kind) ==
    CASE kind = "subscribeToEvents" -> {Ok(NoBody)}
      [] kind = "getModel" -> {Ok([t |-> "model", model |-> m]) : m \in Models} \cup Failures
      [] kind = "getModels" -> {Ok(b) : b \in ListBodies} \cup Failures
      [] OTHER -> {Ok(JsonObject)} \cup Failures

RequestOf(kind) ==
    CASE kind = "healthz" -> [verb |-> "GET", path |-> "/healthz"]
      [] kind = "getModel" -> [verb |-> "GET", path |-> "/v1/models/{model}"]
      [] kind = "getModels" -> [verb |-> "GET", path |-> "/models"]
      [] kind = "pullModel" -> [verb |-> "POST", path |-> "/v1/models/pull"]
      [] kind = "importModel" -> [verb |-> "POST", path |-> "/v1/models/import"]
      [] kind = "deleteModel" -> [verb |-> "DELETE", path |-> "/models/{model}"]
      [] kind = "updateModel" -> [verb |-> "PATCH", path |-> "/v1/models/{id}"]
      [] kind = "cancelModelPull" -> [verb |-> "DELETE", path |-> "/models/pull"]
      [] kind = "getModelStatus" -> [verb |-> "GET", path |-> "/models/status/{model}"]
      [] OTHER -> [verb |-> "none", path |-> "none"]

UsesTransport(kind) == kind # "subscribeToEvents"

\* ------------------------------------------------------- settled futures
Void == [t |-> "void"]
Resolved(v) == [state |-> "resolved", value |-> v]
Rejected(e) == [state |-> "rejected", value |-> e]
Pending == [state |-> "pending", value |-> Void]

\* The error ky rejects with: an HTTPError carrying the response, or the
\* network error when no response arrived.
RawError(resp) ==
    [t |-> "error", name |-> IF resp.response = "none" THEN "NetworkError" ELSE "HTTPError"]
SyntaxError == [t |-> "error", name |-> "SyntaxError"]
TypeError == [t |-> "error", name |-> "TypeError"]

\* .then(), .then(() => {}): void on success, the failure passed on.
PropagateVoid(resp) == IF resp.ok THEN Resolved(Void) ELSE Rejected(RawError(resp))

getModel(resp) ==
    IF resp.ok
    THEN Resolved([t |-> "model", model |-> transformModel(resp.body.model)])
    ELSE Rejected(RawError(resp))

\* e.data.map(...): a TypeError unless e carries a data list.
MapData(e) ==
    IF e.t = "modelList"
    THEN Resolved([t |-> "modelList",
                   data |-> [i \in 1..Len(e.data) |-> transformModel(e.data[i])]])
    ELSE Rejected(TypeError)

getModels(resp) ==
    IF resp.ok
    THEN IF TypeOf(resp.body) = "object" THEN MapData(resp.body)
         ELSE Resolved([t |-> "modelList", data |-> <<>>])
    ELSE Rejected(RawError(resp))

\* throw (await e.response?.json()) ?? e
PullError(resp) ==
    IF resp.response = "none" THEN RawError(resp)
    ELSE IF resp.response = "unparseable" THEN SyntaxError
    ELSE IF resp.body.t = "null" THEN RawError(resp)
    ELSE resp.body

pullModel(resp) == IF resp.ok THEN Resolved(Void) ELSE Rejected(PullError(resp))

\* An import without its catch: the failure reaches the caller.
importModelNoCatch(resp) == PropagateVoid(resp)

\* .catch((e) => console.debug(e)).then()
importModel(resp) == Resolved(Void)

deleteModel(resp) == PropagateVoid(resp)
updateModel(resp) == PropagateVoid(resp)
cancelModelPull(resp) == PropagateVoid(resp)

\* A status probe without its catch: the failure reaches the caller.
getModelStatusNoCatch(resp) ==
    IF resp.ok THEN Resolved([t |-> "bool", v |-> TRUE]) ELSE Rejected(RawError(resp))

\* .then((e) => true).catch(() => false)
getModelStatus(resp) == Resolved([t |-> "bool", v |-> resp.ok])

healthz(resp) == PropagateVoid(resp)

\* The caller's future once the operation's transport call settled with resp.
Result(kind, resp) ==
    CASE kind = "healthz" -> healthz(resp)
      [] kind = "subscribeToEvents" -> Resolved(Void)
      [] kind = "getModel" -> getModel(resp)
      [] kind = "getModels" -> getModels(resp)
      [] kind = "pullModel" -> pullModel(resp)
      [] kind = "importModel" -> importModel(resp)
      [] kind = "deleteModel" -> deleteModel(resp)
      [] kind = "updateModel" -> updateModel(resp)
      [] kind = "cancelModelPull" -> cancelModelPull(resp)
      [] kind = "getModelStatus" -> getModelStatus(resp)

\* ------------------------------------------------------------------ state
VARIABLES
    ops,           \* every operation handed to queue.add, in submission order
    queue,         \* the queue's pending list: ids of operations not yet started
    pendingCount,  \* the queue's count of running operations
    transportLog,  \* the transport calls started, in start order
    attempts,      \* retries made by the running health probe
    sockets,       \* the WebSocket objects created, each with a message listener
    received,      \* the push frames handled by a message listener
    emitted,       \* events.emit calls, in order
    timers,        \* pending setTimeout callbacks, each with its remaining delay
    arg,           \* the input of a pure function applied on its own
    ret            \* the successive results of applying it

vars ==
    <<ops, queue, pendingCount, transportLog, attempts, sockets, received,
      emitted, timers, arg, ret>>

NoResponse == [ok |-> FALSE, response |-> "pending", body |-> NoBody]

NewOp(kind) ==
    [kind |-> kind, state |-> "queued", calls |-> 0, response |-> NoResponse,
     future |-> Pending, settles |-> 0]

\* The queue starts its head when a slot is free. Starting an operation runs
\* its body up to its first suspension: the transport call is issued, or, for
\* the subscription task, the socket is created and its listener registered.
TryToStartAnother(s) ==
    IF s.pendingCount < Concurrency /\ s.queue # <<>>
    THEN LET id == Head(s.queue)
             k == s.ops[id].kind
         IN  [ops |-> [s.ops EXCEPT ![id].state = "running", ![id].calls = @ + 1],
              queue |-> Tail(s.queue),
              pendingCount |-> s.pendingCount + 1,
              transportLog |->
                  IF UsesTransport(k)
                  THEN Append(s.transportLog, [op |-> id, request |-> RequestOf(k)])
                  ELSE s.transportLog,
              sockets |->
                  IF k = "subscribeToEvents"
                  THEN Append(s.sockets, "connecting")
                  ELSE s.sockets]
    ELSE s

\* A queue that serves the most recently added operation first.
QueueAddFront(s, kind) ==
    TryToStartAnother(
        [s EXCEPT !.ops = Append(s.ops, NewOp(kind)),
                  !.queue = <<Len(s.ops) + 1>> \o s.queue])

\* queue.add(fn)
QueueAdd(s, kind) ==
    TryToStartAnother(
        [s EXCEPT !.ops = Append(s.ops, NewOp(kind)),
                  !.queue = Append(s.queue, Len(s.ops) + 1)])

\* A queue that stalls after a failure: the failed operation keeps its slot.
QueueNextStall(s, id, resp) ==
    LET t == [s EXCEPT !.ops[id].state = "settled",
                       !.ops[id].response = resp,
                       !.ops[id].future = Result(s.ops[id].kind, resp),
                       !.ops[id].settles = @ + 1]
    IN  IF resp.ok THEN TryToStartAnother([t EXCEPT !.pendingCount = @ - 1]) ELSE t

\* A queue that runs a failed operation again.
QueueNextRetry(s, id, resp) ==
    LET t == [s EXCEPT !.ops[id].state = IF resp.ok THEN "settled" ELSE "queued",
                       !.ops[id].response = resp,
                       !.ops[id].future = Result(s.ops[id].kind, resp),
                       !.ops[id].settles = @ + 1,
                       !.pendingCount = @ - 1]
    IN  TryToStartAnother(
            IF resp.ok THEN t ELSE [t EXCEPT !.queue = Append(@, id)])

\* The running operation id settles with resp: its future settles, its slot
\* is freed and the queue starts the next operation.
QueueNext(s, id, resp) ==
    TryToStartAnother(
        [s EXCEPT !.ops[id].state = "settled",
                  !.ops[id].response = resp,
                  !.ops[id].future = Result(s.ops[id].kind, resp),
                  !.ops[id].settles = @ + 1,
                  !.pendingCount = @ - 1])

NewQueue ==
    [ops |-> <<>>, queue |-> <<>>, pendingCount |-> 0, transportLog |-> <<>>,
     sockets |-> <<>>]

\* A constructor that calls healthz() directly instead of queueing it.
ConstructedHealthNotQueued ==
    [QueueAdd(QueueAdd(NewQueue, "healthz"), "subscribeToEvents")
        EXCEPT !.pendingCount = 0]

\* A constructor that subscribes before it queues the health probe.
ConstructedSubscribeFirst ==
    QueueAdd(QueueAdd(NewQueue, "subscribeToEvents"), "healthz")

\* constructor: queue.add(() => this.healthz()); this.subscribeToEvents()
Constructed == QueueAdd(QueueAdd(NewQueue, "healthz"), "subscribeToEvents")

Cur ==
    [ops |-> ops, queue |-> queue, pendingCount |-> pendingCount,
     transportLog |-> transportLog, sockets |-> sockets]

Becomes(s) ==
    /\ ops' = s.ops
    /\ queue' = s.queue
    /\ pendingCount' = s.pendingCount
    /\ transportLog' = s.transportLog
    /\ sockets' = s.sockets

NoArg == [fn |-> "none"]

\* The client as its constructor leaves it.
InitClient ==
    /\ ops = Constructed.ops
    /\ queue = Constructed.queue
    /\ pendingCount = Constructed.pendingCount
    /\ transportLog = Constructed.transportLog
    /\ sockets = Constructed.sockets
    /\ attempts = 0
    /\ received = <<>>
    /\ emitted = <<>>
    /\ timers = {}

Init ==
    /\ InitClient
    /\ arg = NoArg
    /\ ret = <<>>

ClientCalls == Len(ops) - 2

\* A cancelModelPull that also drops the pulls still waiting in the queue.
CallCancelPreempts(kind) ==
    /\ ClientCalls < MaxCalls
    /\ LET s == QueueAdd(Cur, kind)
           keep(id) == s.ops[id].kind # "pullModel"
       IN  Becomes(IF kind = "cancelModelPull"
                   THEN [s EXCEPT !.queue = SelectSeq(@, keep)]
                   ELSE s)
    /\ UNCHANGED <<arg, ret, attempts, received, emitted, timers>>

\* A client calls one of the public operations.
Call(kind) ==
    /\ ClientCalls < MaxCalls
    /\ Becomes(QueueAdd(Cur, kind))
    /\ UNCHANGED <<arg, ret, attempts, received, emitted, timers>>

\* An attempt of the health probe fails and ky retries it.
HealthRetry ==
    /\ ops[1].state = "running"
    /\ attempts < RetryLimit
    /\ attempts' = attempts + 1
    /\ UNCHANGED <<arg, ret, ops, queue, pendingCount, transportLog, sockets, received,
                   emitted, timers>>

\* A subscription task that resolves only once its socket is open.
SettleWaitsOpen(id, resp) ==
    /\ ops[id].state = "running"
    /\ resp \in ResponsesOf(ops[id].kind)
    /\ ops[id].kind = "subscribeToEvents" => sockets[Len(sockets)] = "open"
    /\ Becomes(QueueNext(Cur, id, resp))
    /\ attempts' = IF ops[id].kind = "healthz" THEN 0 ELSE attempts
    /\ UNCHANGED <<arg, ret, received, emitted, timers>>

\* The transport call of the running operation id settles with resp.
Settle(id, resp) ==
    /\ ops[id].state = "running"
    /\ resp \in ResponsesOf(ops[id].kind)
    /\ Becomes(QueueNext(Cur, id, resp))
    /\ attempts' = IF ops[id].kind = "healthz" THEN 0 ELSE attempts
    /\ UNCHANGED <<arg, ret, received, emitted, timers>>

\* ------------------------------------------------------------ event bridge
DownloadTypes ==
    [DownloadUpdated |-> "onFileDownloadUpdate",
     DownloadError |-> "onFileDownloadError",
     DownloadSuccess |-> "onFileDownloadSuccess",
     DownloadStopped |-> "onFileDownloadStopped",
     DownloadStarted |-> "onFileDownloadStarted"]

\* DownloadTypes[type]: a string enum maps its member names to their values
\* and has no reverse mapping, so any other index yields undefined.
DownloadTypesAt(type) ==
    IF type \in DOMAIN DownloadTypes THEN DownloadTypes[type] ELSE "undefined"

DeclaredTypes == {DownloadTypes[k] : k \in DOMAIN DownloadTypes}

\* The type field of an inbound frame: a declared type or an enum member name.
FrameTypes == DeclaredTypes \cup DOMAIN DownloadTypes

TaskIds == {"a"}

ItemLists ==
    {<<>>,
     <<[downloadedBytes |-> 50, bytes |-> 100], [downloadedBytes |-> 0, bytes |-> 100]>>}

Frames ==
    {[type |-> ty, task |-> [id |-> id, items |-> items]] :
        ty \in FrameTypes, id \in TaskIds, items \in ItemLists}

\* items.reduce((acc, cur) => acc + cur[field], 0)
RECURSIVE Reduce(_, _)
Reduce(items, field) ==
    IF items = <<>> THEN 0
    ELSE Reduce(SubSeq(items, 1, Len(items) - 1), field) + items[Len(items)][field]

\* The division without its guard.
PercentUnguarded(transferred, total) == [num |-> transferred, den |-> total]

\* total > 0 ? transferred / total : 0, as an exact fraction
Percent(transferred, total) ==
    IF total > 0 THEN [num |-> transferred, den |-> total] ELSE [num |-> 0, den |-> 1]

ProgressPayload(data) ==
    LET transferred == Reduce(data.task.items, "downloadedBytes")
        total == Reduce(data.task.items, "bytes")
    IN  [modelId |-> data.task.id,
         percent |-> Percent(transferred, total),
         size |-> [transferred |-> transferred, total |-> total]]

\* A test of the frame type against the enum member's name.
IsDownloadSuccessByName(data) == data.type = "DownloadSuccess"

\* data.type === DownloadTypes.DownloadSuccess
IsDownloadSuccess(data) == data.type = DownloadTypes.DownloadSuccess

OnModelsUpdate == "OnModelsUpdate"

\* The transport signals that socket sock is ready.
SocketOpen(sock) ==
    /\ sockets[sock] = "connecting"
    /\ sockets' = [sockets EXCEPT ![sock] = "open"]
    /\ UNCHANGED <<arg, ret, ops, queue, pendingCount, transportLog, attempts, received,
                   emitted, timers>>

\* The transport of socket sock fails or closes; nothing reconnects it.
SocketClose(sock) ==
    /\ sockets[sock] \in {"connecting", "open"}
    /\ sockets' = [sockets EXCEPT ![sock] = "closed"]
    /\ UNCHANGED <<arg, ret, ops, queue, pendingCount, transportLog, attempts, received,
                   emitted, timers>>

\* The operations whose futures have settled.
SettledNow == {id \in 1..Len(ops) : ops[id].state = "settled"}

\* A listener that handles a frame only while the queue is idle.
OnMessageWhenIdle(sock, data) ==
    /\ pendingCount = 0
    /\ sockets[sock] = "open"
    /\ Len(received) < MaxFrames
    /\ received' =
           Append(received,
                  [data |-> data, socket |-> sock, age |-> 0, settled |-> SettledNow])
    /\ emitted' =
           Append(emitted,
                  [name |-> DownloadTypesAt(data.type),
                   payload |-> ProgressPayload(data),
                   frame |-> Len(received) + 1])
    /\ UNCHANGED <<arg, ret, ops, queue, pendingCount, transportLog, attempts, sockets,
                   timers>>

\* The message listener of socket sock handles the frame data. Each emitted
\* event and each timer records the frame that caused it, and each handled
\* frame the operations that had settled by then.
OnMessage(sock, data) ==
    /\ sockets[sock] = "open"
    /\ Len(received) < MaxFrames
    /\ received' =
           Append(received,
                  [data |-> data, socket |-> sock, age |-> 0, settled |-> SettledNow])
    /\ emitted' =
           Append(emitted,
                  [name |-> DownloadTypesAt(data.type),
                   payload |-> ProgressPayload(data),
                   frame |-> Len(received) + 1])
    /\ timers' =
           IF IsDownloadSuccess(data)
           THEN timers \cup
                    {[frame |-> Len(received) + 1, remaining |-> ModelsUpdateDelay]}
           ELSE timers
    /\ UNCHANGED <<arg, ret, ops, queue, pendingCount, transportLog, attempts, sockets>>

\* A setTimeout callback runs once its delay has passed.
TimerFire(t) ==
    /\ t \in timers
    /\ t.remaining = 0
    /\ emitted' =
           Append(emitted, [name |-> OnModelsUpdate, payload |-> Empty, frame |-> t.frame])
    /\ timers' = timers \ {t}
    /\ UNCHANGED <<arg, ret, ops, queue, pendingCount, transportLog, attempts, sockets,
                   received>>

Min(a, b) == IF a < b THEN a ELSE b
Max(a, b) == IF a > b THEN a ELSE b

\* TickMs pass while a timer is waiting. The age of a frame is the time since
\* its listener ran, counted up to the delay.
Tick ==
    /\ \E t \in timers : t.remaining > 0
    /\ timers' = {[t EXCEPT !.remaining = Max(0, @ - TickMs)] : t \in timers}
    /\ received' =
           [i \in 1..Len(received) |->
               [received[i] EXCEPT !.age = Min(ModelsUpdateDelay, @ + TickMs)]]
    /\ UNCHANGED <<arg, ret, ops, queue, pendingCount, transportLog, attempts, sockets, emitted>>

\* ------------------------------------------- pure functions on their own
\* Every combination of the optional fields of a raw model record.
WithField(ms, k, vs) == ms \cup {Spread(m, [f \in {k} |-> v]) : m \in ms, v \in vs}

AllModels ==
    LET m0 == {[id |-> "a"]}
        m1 == WithField(m0, "temperature", {7})
        m2 == WithField(m1, "ctx_len", {2048})
        m3 == WithField(m2, "size", {3})
        m4 == WithField(m3, "parameters", {[temperature |-> 5], [top_p |-> 1]})
        m5 == WithField(m4, "settings", {[ctx_len |-> 512]})
    IN  WithField(m5, "metadata", {[tags |-> <<"x">>], [tags |-> <<>>, size |-> 9]})

ByteValues == {0, 50, 100}
AllItems == [downloadedBytes : ByteValues, bytes : ByteValues]
AllItemLists == UNION {[1..n -> AllItems] : n \in 0..MaxItems}

PureInputs ==
    {[fn |-> "transformModel", value |-> m] : m \in AllModels}
        \cup {[fn |-> "message",
                value |-> [type |-> "onFileDownloadUpdate",
                           task |-> [id |-> "a", items |-> items]]] :
                 items \in AllItemLists}

InitPure ==
    /\ InitClient
    /\ arg \in PureInputs
    /\ ret = <<>>

\* transformModel is applied to the record, then to its own result.
ApplyTransform ==
    /\ arg.fn = "transformModel"
    /\ Len(ret) < MaxPasses
    /\ ret' = Append(ret, transformModel(IF ret = <<>> THEN arg.value ELSE ret[Len(ret)]))
    /\ UNCHANGED <<arg, ops, queue, pendingCount, transportLog, attempts, sockets,
                   received, emitted, timers>>

\* The message listener computes the payload of the frame's progress event.
ApplyListener ==
    /\ arg.fn = "message"
    /\ ret = <<>>
    /\ ret' = <<ProgressPayload(arg.value)>>
    /\ UNCHANGED <<arg, ops, queue, pendingCount, transportLog, attempts, sockets,
                   received, emitted, timers>>

NextPure == ApplyTransform \/ ApplyListener

SpecPure == InitPure /\ [][NextPure]_vars

Next ==
    \/ \E kind \in ClientKinds : Call(kind)
    \/ HealthRetry
    \/ \E id \in 1..Len(ops) : \E resp \in ResponsesOf(ops[id].kind) : Settle(id, resp)

Spec == Init /\ [][Next]_vars

\* The event bridge on its own: construction runs to the subscription task,
\* then sockets open, frames arrive and timers fire.
NextBridge ==
    \/ HealthRetry
    \/ \E id \in 1..Len(ops) : \E resp \in ResponsesOf(ops[id].kind) : Settle(id, resp)
    \/ \E sock \in 1..Len(sockets) : SocketOpen(sock)
    \/ \E sock \in 1..Len(sockets) : SocketClose(sock)
    \/ \E sock \in 1..Len(sockets) : \E data \in Frames : OnMessage(sock, data)
    \/ \E t \in timers : TimerFire(t)
    \/ Tick

SpecBridge == Init /\ [][NextBridge]_vars

\* Sockets on their own: the public subscribeToEvents is called again.
NextSockets ==
    \/ Call("subscribeToEvents")
    \/ HealthRetry
    \/ \E id \in 1..Len(ops) : \E resp \in ResponsesOf(ops[id].kind) : Settle(id, resp)
    \/ \E sock \in 1..Len(sockets) : SocketOpen(sock)
    \/ \E sock \in 1..Len(sockets) : SocketClose(sock)

SpecSockets == Init /\ [][NextSockets]_vars

\* Pulls and cancellations interleaved with the progress frames of a pull.
InterleaveKinds == {"pullModel", "cancelModelPull"}

InterleaveFrames ==
    {[type |-> ty,
      task |-> [id |-> "a",
                items |-> <<[downloadedBytes |-> 50, bytes |-> 100],
                            [downloadedBytes |-> 0, bytes |-> 100]>>]] :
        ty \in {"DownloadUpdated"}}

NextInterleave ==
    \/ \E kind \in InterleaveKinds : Call(kind)
    \/ HealthRetry
    \/ \E id \in 1..Len(ops) : \E resp \in ResponsesOf(ops[id].kind) : Settle(id, resp)
    \/ \E sock \in 1..Len(sockets) : SocketOpen(sock)
    \/ \E sock \in 1..Len(sockets) : \E data \in InterleaveFrames : OnMessage(sock, data)

SpecInterleave == Init /\ [][NextInterleave]_vars

\* Termination: every transport call that was started ends, by a retry of the
\* health probe or by settling; nothing obliges a client to call or a socket
\* to open.
LiveKinds == {"deleteModel"}

TransportEnds ==
    \/ HealthRetry
    \/ \E id \in 1..Len(ops) : \E resp \in ResponsesOf(ops[id].kind) : Settle(id, resp)

NextLive ==
    \/ \E kind \in LiveKinds : Call(kind)
    \/ TransportEnds
    \/ \E sock \in 1..Len(sockets) : SocketOpen(sock)
    \/ \E sock \in 1..Len(sockets) : SocketClose(sock)

SpecLive == Init /\ [][NextLive]_vars /\ WF_vars(TransportEnds)

\* ----------------------------------------------------------------- claims
Ids == 1..Len(ops)
Started == {id \in Ids : ops[id].state # "queued"}
Running == {id \in Ids : ops[id].state = "running"}
Settled == {id \in Ids : ops[id].state = "settled"}
OfKind(kinds) == {id \in Ids : ops[id].kind \in kinds}
Failed == {id \in Settled : ~ops[id].response.ok}
LogOf(id) == {i \in 1..Len(transportLog) : transportLog[i].op = id}

\* C1: at every instant at most one queued operation is in flight: no
\* operation is running while another one is running, whatever calls the
\* clients have issued.
C1_AtMostOneInFlight == Cardinality(Running) <= 1

\* C1 witness: a client operation is in flight while another client call
\* waits in the queue behind it.
C1_Witness ==
    /\ \E id \in Running : ops[id].kind \in ClientKinds
    /\ \E i \in 1..Len(queue) : ops[queue[i]].kind \in ClientKinds

\* C2: operations are started in the order they were submitted: the
\* transport calls appear in submission order, and an operation is started
\* only when every operation submitted before it has been started.
C2_FifoStart ==
    /\ \A i, j \in 1..Len(transportLog) :
           i < j => transportLog[i].op < transportLog[j].op
    /\ \A b \in Started : \A a \in Ids : a < b => a \in Started

\* C2 witness: two client calls were started one after the other, the
\* earlier one having failed.
C2_Witness ==
    \E a, b \in Started :
        /\ a < b
        /\ ops[a].kind \in ClientKinds
        /\ ops[b].kind \in ClientKinds
        /\ a \in Failed

\* C3: a failure touches only the failed operation: every settled operation
\* carries the result of its own transport outcome, every other future is
\* still pending, the operations behind a failure are still waiting in
\* their original order, and the queue never stalls with operations waiting
\* and nothing running.
C3_FailureIsolation ==
    /\ \A id \in Settled : ops[id].future = Result(ops[id].kind, ops[id].response)
    /\ \A id \in Ids \ Settled : ops[id].future = Pending
    /\ \A id \in Ids \ Started : \E i \in 1..Len(queue) : queue[i] = id
    /\ \A i, j \in 1..Len(queue) : i < j => queue[i] < queue[j]
    /\ queue # <<>> => Running # {}

\* C3 witness: an operation was rejected and one queued behind it resolved.
C3_Witness ==
    \E a, b \in Settled :
        /\ a < b
        /\ ops[a].kind \in ClientKinds
        /\ ops[a].future.state = "rejected"
        /\ ops[b].response.ok
        /\ ops[b].future.state = "resolved"

\* C4 as stated: no client operation is dispatched before the backend has
\* answered the health probe OK.
C4_HealthOkBeforeCalls ==
    \A id \in Started \cap OfKind(ClientKinds) :
        \E h \in Settled : h < id /\ ops[h].kind = "healthz" /\ ops[h].response.ok

\* C4 amended: the health probe is the first operation in the queue and no
\* client operation is dispatched before the health probe has settled,
\* successfully or not.
C4_HealthSettledBeforeCalls ==
    /\ ops[1].kind = "healthz"
    /\ transportLog[1].op = 1
    /\ \A id \in Started \cap OfKind(ClientKinds) :
           \E h \in Settled : h < id /\ ops[h].kind = "healthz"

\* C4 witness: a client operation is in flight after the health probe failed.
C4_Witness ==
    /\ 1 \in Failed
    /\ \E id \in Running : ops[id].kind \in ClientKinds

C6_StatusNeverRejects ==
    \A id \in OfKind({"getModelStatus"}) :
        /\ ops[id].future.state # "rejected"
        /\ id \in Settled =>
               ops[id].future =
                   [state |-> "resolved",
                    value |-> [t |-> "bool", v |-> ops[id].response.ok]]

\* C6 witness: one status probe failed without a response and resolved
\* false, another was answered with an error status and resolved false too.
C6_Witness ==
    \E a, b \in Failed \cap OfKind({"getModelStatus"}) :
        /\ ops[a].response.response = "none"
        /\ ops[b].response.response # "none"
        /\ ops[a].future.value.v = FALSE
        /\ ops[b].future.value.v = FALSE

\* C7 as stated: whenever the transport call of getModels succeeds, the call
\* resolves: to one normalized record per element, in input order, when the
\* body is an object carrying a data list, and to the empty list for every
\* other body.
C7_GetModelsNeverFailsOnShape ==
    \A id \in Settled \cap OfKind({"getModels"}) :
        ops[id].response.ok =>
            /\ ops[id].future.state = "resolved"
            /\ LET body == ops[id].response.body
                   out == ops[id].future.value.data
               IN  IF body.t = "modelList"
                   THEN /\ Len(out) = Len(body.data)
                        /\ \A i \in 1..Len(out) : out[i] = transformModel(body.data[i])
                   ELSE out = <<>>

\* C8 as stated: pullModel resolves when the backend accepts the pull; on a
\* failure it rejects with the parsed error body when the failure carries
\* one, and with the raw transport error otherwise.
C8_PullErrorSurfaced ==
    \A id \in Settled \cap OfKind({"pullModel"}) :
        LET resp == ops[id].response
            parsed == resp.response = "json" /\ resp.body.t # "null"
            raw == [t |-> "error",
                    name |-> IF resp.response = "none" THEN "NetworkError" ELSE "HTTPError"]
        IN  IF resp.ok
            THEN ops[id].future = [state |-> "resolved", value |-> [t |-> "void"]]
            ELSE /\ ops[id].future.state = "rejected"
                 /\ ops[id].future.value = IF parsed THEN resp.body ELSE raw

\* C9: importModel is best-effort: its future is never rejected, it
\* resolves to void whatever the outcome of its transport call, and the
\* operation submitted after it is started.
C9_ImportBestEffort ==
    \A id \in OfKind({"importModel"}) :
        /\ ops[id].future.state # "rejected"
        /\ id \in Settled =>
               /\ ops[id].future = [state |-> "resolved", value |-> [t |-> "void"]]
               /\ id < Len(ops) => id + 1 \in Started

\* C9 witness: an import whose transport call failed has resolved and the
\* operation queued behind it has been started.
C9_Witness ==
    \E id \in Failed \cap OfKind({"importModel"}) :
        /\ ops[id].future.state = "resolved"
        /\ id < Len(ops)
        /\ id + 1 \in Started

FrameIds == 1..Len(received)
UpdatesFor(f) ==
    {i \in 1..Len(emitted) : emitted[i].frame = f /\ emitted[i].name = "OnModelsUpdate"}
ProgressFor(f) ==
    {i \in 1..Len(emitted) : emitted[i].frame = f /\ emitted[i].name # "OnModelsUpdate"}
TimersFor(f) == {t \in timers : t.frame = f}

\* C10: a frame of type onFileDownloadSuccess causes exactly one
\* models-list-changed event: it is pending on a timer or has been emitted,
\* never both and never twice, it is emitted only once 500 ms have passed
\* since the frame was handled, and after the emit of the frame's progress
\* event; a frame of any other type causes none.
C10_ModelsUpdateOncePerSuccess ==
    /\ \A i \in 1..Len(emitted) : emitted[i].frame \in FrameIds
    /\ \A f \in FrameIds :
           IF received[f].data.type = "onFileDownloadSuccess"
           THEN /\ Cardinality(UpdatesFor(f)) + Cardinality(TimersFor(f)) = 1
                /\ \A u \in UpdatesFor(f) :
                       /\ received[f].age >= 500
                       /\ \E p \in ProgressFor(f) : p < u
           ELSE UpdatesFor(f) = {} /\ TimersFor(f) = {}

\* C10 witness: the models-list-changed event of a success frame has been
\* emitted, and a frame of another type has been handled without one.
C10_Witness ==
    \E f, g \in FrameIds :
        /\ received[f].data.type = "onFileDownloadSuccess"
        /\ Cardinality(UpdatesFor(f)) = 1
        /\ received[g].data.type # "onFileDownloadSuccess"
        /\ UpdatesFor(g) = {}


\* C11 as stated: a frame whose type is one of the five declared types
\* produces exactly one progress event, named by that type and carrying
\* the task's id as modelId.
C11_EventNamedByType ==
    \A f \in FrameIds :
        received[f].data.type \in
            {"onFileDownloadUpdate", "onFileDownloadError", "onFileDownloadSuccess",
             "onFileDownloadStopped", "onFileDownloadStarted"} =>
            /\ Cardinality(ProgressFor(f)) = 1
            /\ \A i \in ProgressFor(f) :
                   /\ emitted[i].name = received[f].data.type
                   /\ emitted[i].payload.modelId = received[f].data.task.id

\* The sum of a field over the items, from the first item on.
RECURSIVE SumOf(_, _)
SumOf(items, field) ==
    IF items = <<>> THEN 0 ELSE Head(items)[field] + SumOf(Tail(items), field)

\* C12: the payload of a frame carries transferred = the sum of the items'
\* downloadedBytes and total = the sum of their bytes; percent is a defined
\* number, equal to transferred/total when total > 0 and to 0 when total is
\* 0, also for an empty items list.
C12_PercentAggregation ==
    (arg.fn = "message" /\ ret # <<>>) =>
        LET transferred == SumOf(arg.value.task.items, "downloadedBytes")
            total == SumOf(arg.value.task.items, "bytes")
            out == ret[1]
        IN  /\ out.size = [transferred |-> transferred, total |-> total]
            /\ out.percent.den > 0
            /\ total > 0 => out.percent.num * total = transferred * out.percent.den
            /\ total = 0 => out.percent.num = 0

\* C12 witness: the items [{50,100},{0,100}] gave percent 0.25.
C12_Witness ==
    /\ arg.fn = "message"
    /\ arg.value.task.items =
           <<[downloadedBytes |-> 50, bytes |-> 100], [downloadedBytes |-> 0, bytes |-> 100]>>
    /\ ret # <<>>
    /\ ret[1].percent.num * 4 = ret[1].percent.den

\* C17: after normalization the parameters are the derived inference
\* defaults overridden by the record's explicit parameters, the settings
\* likewise from the load defaults, the metadata is {tags: [], size: the
\* record's size or 0} only when the record had none and is kept as it was
\* otherwise, and every other field is unchanged.
C17_Normalization ==
    (arg.fn = "transformModel" /\ ret # <<>>) =>
        LET m == arg.value
            out == ret[1]
            derivedP == extractInferenceParams(m)
            explicitP == IF "parameters" \in DOMAIN m THEN m.parameters ELSE Empty
            derivedS == extractModelLoadParams(m)
            explicitS == IF "settings" \in DOMAIN m THEN m.settings ELSE Empty
        IN  /\ DOMAIN out = DOMAIN m \cup {"parameters", "settings", "metadata"}
            /\ \A k \in DOMAIN m \ {"parameters", "settings", "metadata"} : out[k] = m[k]
            /\ DOMAIN out.parameters = DOMAIN derivedP \cup DOMAIN explicitP
            /\ \A k \in DOMAIN explicitP : out.parameters[k] = explicitP[k]
            /\ \A k \in DOMAIN derivedP \ DOMAIN explicitP : out.parameters[k] = derivedP[k]
            /\ DOMAIN out.settings = DOMAIN derivedS \cup DOMAIN explicitS
            /\ \A k \in DOMAIN explicitS : out.settings[k] = explicitS[k]
            /\ \A k \in DOMAIN derivedS \ DOMAIN explicitS : out.settings[k] = derivedS[k]
            /\ out.metadata =
                   IF "metadata" \in DOMAIN m
                   THEN m.metadata
                   ELSE [tags |-> <<>>, size |-> IF "size" \in DOMAIN m THEN m.size ELSE 0]

\* C17 witness: a record with a derived temperature, an explicit
\* temperature, a size and no metadata has been normalized: the explicit
\* temperature won and the metadata was filled in.
C17_Witness ==
    /\ arg.fn = "transformModel"
    /\ ret # <<>>
    /\ "temperature" \in DOMAIN arg.value
    /\ "parameters" \in DOMAIN arg.value
    /\ "temperature" \in DOMAIN arg.value.parameters
    /\ arg.value.parameters.temperature # arg.value.temperature
    /\ "size" \in DOMAIN arg.value
    /\ "metadata" \notin DOMAIN arg.value
    /\ ret[1].parameters.temperature = arg.value.parameters.temperature
    /\ ret[1].metadata = [tags |-> <<>>, size |-> arg.value.size]

\* C18: normalization is idempotent: normalizing a normalized record
\* yields the same record.
C18_Idempotent ==
    arg.fn = "transformModel" => \A i \in 1..Len(ret) : ret[i] = ret[1]

\* C18 witness: a record that normalization changed has been normalized
\* twice.
C18_Witness ==
    /\ arg.fn = "transformModel"
    /\ Len(ret) >= 2
    /\ ret[1] # arg.value
    /\ "parameters" \in DOMAIN arg.value

\* C13 as stated: a client instance never has two open sockets with
\* message listeners attached.
C13_AtMostOneSocket ==
    Cardinality({i \in 1..Len(sockets) : sockets[i] = "open"}) <= 1

C15_FrameNeverWaits ==
    \A sock \in 1..Len(sockets) :
        (sockets[sock] = "open" /\ Len(received) < MaxFrames) =>
            \A data \in InterleaveFrames : ENABLED OnMessage(sock, data)

\* C15 witness: of two progress events for the pulled model, one was
\* emitted before the pull call resolved and one after.
C15_Witness ==
    \E p \in OfKind({"pullModel"}) : \E f, g \in FrameIds :
        /\ ops[p].future.state = "resolved"
        /\ p \in Started
        /\ p \notin received[f].settled
        /\ p \in received[g].settled
        /\ \A i \in ProgressFor(f) \cup ProgressFor(g) : emitted[i].payload.modelId = "a"

\* C16: the pending list changes only by an enqueue appending the new
\* operation or by the queue starting its head; no step, a cancelModelPull
\* included, changes the future of an operation other than the one whose
\* transport call settles, a pull submitted before a cancellation is started
\* before it, and handling a push frame changes neither the pending list nor
\* any operation.
C16_CancelIsOrdinary ==
    [][/\ \/ queue' = queue
          \/ Len(ops') = Len(ops) + 1 /\ queue' = Append(queue, Len(ops'))
          \/ queue # <<>> /\ queue' = Tail(queue) /\ ops'[Head(queue)].state = "running"
       /\ \A id \in 1..Len(ops) :
              /\ ops'[id].kind = ops[id].kind
              /\ ops'[id].future # ops[id].future =>
                     /\ ops[id].state = "running"
                     /\ ops'[id].state = "settled"
                     /\ ops'[id].future = Result(ops[id].kind, ops'[id].response)
              /\ ops[id].state = "queued" => ops'[id].state \in {"queued", "running"}
       /\ \A p, c \in 1..Len(ops') :
              (/\ p < c
               /\ ops'[p].kind = "pullModel"
               /\ ops'[c].kind = "cancelModelPull"
               /\ ops'[c].state # "queued") => ops'[p].state # "queued"
       /\ received' # received => queue' = queue /\ ops' = ops]_vars

\* C16 witness: a cancellation submitted right after a pull has settled OK,
\* the pull was started before it and has resolved, and a frame was handled
\* while the cancellation had not settled.
C16_Witness ==
    \E p, c \in Settled : \E f \in FrameIds :
        /\ c = p + 1
        /\ ops[p].kind = "pullModel"
        /\ ops[c].kind = "cancelModelPull"
        /\ ops[c].response.ok
        /\ ops[p].future.state = "resolved"
        /\ \A i \in LogOf(p) : \A j \in LogOf(c) : i < j
        /\ c \notin received[f].settled

\* C19: the health probe is retried at most 10 times, and every operation
\* enqueued on the instance, the health probe included, is eventually
\* settled, whatever the transport answers.
C19_EverythingSettles ==
    /\ [](attempts <= 10)
    /\ \A id \in 1..(MaxCalls + 2) : (id \in Ids) ~> (id \in Settled)

\* C19 witness: the health probe has failed and the calls submitted behind
\* it have all settled.
C19_Witness ==
    /\ 1 \in Failed
    /\ Len(ops) > 2
    /\ Settled = Ids

\* C20: the subscription task has settled only once its socket exists, and
\* every operation enqueued on the instance is eventually started, although
\* nothing obliges the socket to open.
C20_SocketNeverBlocks ==
    /\ [](2 \in Settled => Len(sockets) >= 1)
    /\ \A id \in 1..(MaxCalls + 2) : (id \in Ids) ~> (id \in Started)

\* C20 witness: the subscription task and a call behind it have settled
\* while the socket is still connecting.
C20_Witness ==
    /\ 2 \in Settled
    /\ sockets = <<"connecting">>
    /\ \E id \in Settled : ops[id].kind \in LiveKinds

====
